---------------------------- MODULE Spec2Model ----------------------------
(***************************************************************************)
(* Stock Directory Service (src/server.js): an Express router over one     *)
(* MongoDB collection of stock documents.                                  *)
(*                                                                         *)
(* Strings are sequences of one-character strings, so that toUpperCase,    *)
(* parseInt and $regex are computed character by character.  The           *)
(* collection is the sequence of its documents in natural (insertion)      *)
(* order.  Documents carry the required paths of stockSchema, one         *)
(* defaulted Number path (price), one defaulted String path (sector) and   *)
(* the two nested records with their rank and one more path each; the      *)
(* other defaulted paths (pe, marketCap, description, logo_url, ...) are   *)
(* handled by the same code as these, and the _id and __v that the         *)
(* datastore adds are left out.                                            *)
(***************************************************************************)
EXTENDS Integers, Sequences, FiniteSets

VARIABLES db, pend, last, prev

vars == <<db, pend, last, prev>>

(***************************************************************************)
(* Bounds of the model.                                                    *)
(***************************************************************************)
\* Documents the collection may hold (creates are not accepted beyond it).
MaxDocs == 2
\* Clients with a request in flight at the same time (SpecConc).
NumClients == 2

(***************************************************************************)
(* Program constants.                                                      *)
(***************************************************************************)
\* parseInt(...) || 500
DEFAULT_LIMIT == 500
\* .limit(20) of the search route
SEARCH_LIMIT == 20

(***************************************************************************)
(* Strings                                                                 *)
(***************************************************************************)
EmptyObj == [k \in {} |-> k]

LowerLetters == <<"a","b","c","d","e","f","g","h","i","j","k","l","m",
                  "n","o","p","q","r","s","t","u","v","w","x","y","z">>
UpperLetters == <<"A","B","C","D","E","F","G","H","I","J","K","L","M",
                  "N","O","P","Q","R","S","T","U","V","W","X","Y","Z">>
DecimalDigits == <<"0","1","2","3","4","5","6","7","8","9">>

Occurs(ch, s) == \E i \in 1..Len(s) : s[i] = ch
IndexOf(ch, s) == CHOOSE i \in 1..Len(s) : s[i] = ch

\* String.prototype.toUpperCase, on the ASCII range.
UpperChar(ch) ==
    IF Occurs(ch, LowerLetters) THEN UpperLetters[IndexOf(ch, LowerLetters)] ELSE ch

toUpperCase(s) == [i \in 1..Len(s) |-> UpperChar(s[i])]

\* The value of ch as a digit of radix r, or -1.
DigitValue(ch, r) ==
    LET v == IF Occurs(ch, DecimalDigits) THEN IndexOf(ch, DecimalDigits) - 1
             ELSE IF Occurs(ch, LowerLetters) THEN IndexOf(ch, LowerLetters) + 9
             ELSE IF Occurs(ch, UpperLetters) THEN IndexOf(ch, UpperLetters) + 9
             ELSE -1
    IN  IF v < r THEN v ELSE -1

RECURSIVE DigitsValue(_, _, _)
DigitsValue(s, k, r) ==
    IF k = 0 THEN 0 ELSE DigitsValue(s, k - 1, r) * r + DigitValue(s[k], r)

Drop(s, n) == SubSeq(s, n + 1, Len(s))

\* parseInt(s) with no radix: leading blanks, a sign, 0x for radix 16, then
\* the longest run of digits; NaN when there is none.  An absent parameter
\* (undefined) is NaN.  The result is [nan, val].
parseInt(opt) ==
    IF opt = <<>> THEN [nan |-> TRUE, val |-> 0]
    ELSE
    LET s0   == opt[1]
        nb   == IF \E i \in 1..Len(s0) : s0[i] # " "
                THEN Drop(s0, (CHOOSE i \in 1..Len(s0) :
                                  s0[i] # " " /\ \A j \in 1..(i-1) : s0[j] = " ") - 1)
                ELSE <<>>
        neg  == nb # <<>> /\ nb[1] = "-"
        s1   == IF nb # <<>> /\ nb[1] \in {"-", "+"} THEN Tail(nb) ELSE nb
        hex  == Len(s1) >= 2 /\ s1[1] = "0" /\ s1[2] \in {"x", "X"}
        r    == IF hex THEN 16 ELSE 10
        s2   == IF hex THEN Drop(s1, 2) ELSE s1
        n    == CHOOSE k \in 0..Len(s2) :
                    /\ \A i \in 1..k : DigitValue(s2[i], r) >= 0
                    /\ (k < Len(s2) => DigitValue(s2[k+1], r) < 0)
        v    == DigitsValue(s2, n, r)
    IN  IF n = 0 THEN [nan |-> TRUE, val |-> 0]
        ELSE [nan |-> FALSE, val |-> IF neg THEN 0 - v ELSE v]

\* p || d : NaN and 0 are falsy.
OrDefault(p, d) == IF p.nan \/ p.val = 0 THEN d ELSE p.val

\* { $regex: pat, $options: 'i' } found somewhere in text, for patterns made
\* of literal characters and the wildcard ".".
RegexMatches(pat, text) ==
    \E i \in 0..(Len(text) - Len(pat)) :
        \A j \in 1..Len(pat) :
            pat[j] = "." \/ UpperChar(pat[j]) = UpperChar(text[i + j])

(***************************************************************************)
(* stockSchema                                                             *)
(***************************************************************************)
GrahamDefaults == [graham_score |-> 0, graham_rank |-> 0]

MagicDefaults == [roa |-> 0, magic_formula_rank |-> 0]

SchemaDefaults ==
    [price |-> 0, sector |-> <<>>,
     graham_props |-> GrahamDefaults, magic_formula_props |-> MagicDefaults]

RequiredPaths == {"symbol", "name"}
NestedPaths == {"graham_props", "magic_formula_props"}

\* given's values over the defaults' keys, the default where given has none.
WithDefaults(defaults, given) ==
    [f \in DOMAIN defaults |-> IF f \in DOMAIN given THEN given[f] ELSE defaults[f]]

\* new Stock(body): the body's schema paths, the defaults for the others.
NewStock(body) ==
    [f \in (DOMAIN SchemaDefaults) \cup (RequiredPaths \cap DOMAIN body) |->
        IF f \notin DOMAIN body THEN SchemaDefaults[f]
        ELSE IF f \in NestedPaths THEN WithDefaults(SchemaDefaults[f], body[f])
        ELSE body[f]]

\* The required validator: the path is present and not the empty string.
RequiredOk(body, f) == f \in DOMAIN body /\ body[f] # <<>>

\* Validation on save(): both required paths.
ValidateNew(body) == \A f \in RequiredPaths : RequiredOk(body, f)

\* runValidators on update: only the paths the update sets.
ValidateUpdate(body) ==
    \A f \in RequiredPaths \cap DOMAIN body : body[f] # <<>>

(***************************************************************************)
(* The datastore: the operations of the Stock model the routes call, each  *)
(* as the result of a call that does not fail.  A collection is a sequence *)
(* of documents in natural order.                                          *)
(***************************************************************************)
Min(a, b) == IF a <= b THEN a ELSE b
Abs(n) == IF n < 0 THEN 0 - n ELSE n

Matching(coll, sym) == {i \in 1..Len(coll) : coll[i].symbol = sym}

FirstMatch(coll, sym) ==
    CHOOSE i \in Matching(coll, sym) : \A j \in Matching(coll, sym) : i <= j

\* Stock.findOne({symbol: sym}): <<doc>>, or <<>> for null.  The match is
\* exact (case-sensitive).
FindOne(coll, sym) ==
    IF Matching(coll, sym) = {} THEN <<>> ELSE <<coll[FirstMatch(coll, sym)]>>

\* .limit(n): 0 is no limit, and a negative n limits to -n (one batch).
Limit(docs, n) == IF n = 0 THEN docs ELSE SubSeq(docs, 1, Min(Abs(n), Len(docs)))

\* The sort keys of the ranking routes, as paths into a document.
MagicRankPath == <<"magic_formula_props", "magic_formula_rank">>
GrahamRankPath == <<"graham_props", "graham_rank">>

ValueAt(doc, path) == doc[path[1]][path[2]]

Permutations(n) ==
    {p \in [1..n -> 1..n] : \A i, j \in 1..n : i # j => p[i] # p[j]}

\* .sort({path: 1}): every ascending order of the documents; the order of
\* documents with equal keys is not determined.
Sorted(coll, path) ==
    {[i \in 1..Len(coll) |-> coll[p[i]]] :
        p \in {q \in Permutations(Len(coll)) :
                 \A i \in 1..(Len(coll) - 1) :
                    ValueAt(coll[q[i]], path) <= ValueAt(coll[q[i+1]], path)}}

\* Variant: a collection with no unique index on symbol.
UniqueIndexAllows_NoIndex(coll, sym, self) == TRUE

\* symbol: { unique: true }: the index admits sym for the document at
\* position self (0 for a new one) when no other document holds it.
UniqueIndexAllows(coll, sym, self) == Matching(coll, sym) \subseteq {self}

\* The document after $set of the update's paths.
SetPaths(doc, body) ==
    [f \in DOMAIN doc |->
        IF f \notin DOMAIN body THEN doc[f]
        ELSE IF f \in NestedPaths THEN WithDefaults(SchemaDefaults[f], body[f])
        ELSE body[f]]

Replace(coll, i, doc) == [coll EXCEPT ![i] = doc]
Remove(coll, i) == SubSeq(coll, 1, i - 1) \o SubSeq(coll, i + 1, Len(coll))

\* find({$or: [{symbol: {$regex}}, {name: {$regex}}]})
FindByQuery(coll, q) ==
    SelectSeq(coll, LAMBDA d : RegexMatches(q, d.symbol) \/ RegexMatches(q, d.name))

\* find({sector: {$regex}})
FindBySector(coll, q) == SelectSeq(coll, LAMBDA d : RegexMatches(q, d.sector))

(***************************************************************************)
(* Responses                                                               *)
(***************************************************************************)
Json(status, body) == [status |-> status, json |-> TRUE, body |-> body]

ListEnvelope(docs) == [success |-> TRUE, count |-> Len(docs), data |-> docs]
ErrorEnvelope(msg) == [success |-> FALSE, error |-> msg]

ServerError == Json(500, ErrorEnvelope("Server error"))
NotFound == Json(404, ErrorEnvelope("Stock not found"))

\* No response is ever sent (status 0).
NoResponse == [status |-> 0, json |-> FALSE, body |-> EmptyObj]
\* The framework's own error page, not the JSON envelope.
DefaultErrorPage == [status |-> 500, json |-> FALSE, body |-> EmptyObj]

(***************************************************************************)
(* Routing: the first route, in the order of registration, whose method    *)
(* and path match.  path holds the segments after /api/stocks; literal     *)
(* segments match without regard to case.                                  *)
(***************************************************************************)
Seg_limit == <<"l","i","m","i","t">>
Seg_top_magic_formula ==
    <<"t","o","p","-","m","a","g","i","c","-","f","o","r","m","u","l","a">>
Seg_top_graham == <<"t","o","p","-","g","r","a","h","a","m">>
Seg_search == <<"s","e","a","r","c","h">>
Seg_sector == <<"s","e","c","t","o","r">>

IsSeg(seg, literal) == toUpperCase(seg) = toUpperCase(literal)

Route(method, path) ==
    IF method = "GET" /\ Len(path) = 0 THEN "listAll"
    ELSE IF method = "GET" /\ Len(path) = 2 /\ IsSeg(path[1], Seg_limit) THEN "limit"
    ELSE IF method = "GET" /\ Len(path) = 1 /\ IsSeg(path[1], Seg_top_magic_formula)
        THEN "topMagicFormula"
    ELSE IF method = "GET" /\ Len(path) = 1 /\ IsSeg(path[1], Seg_top_graham)
        THEN "topGraham"
    ELSE IF method = "GET" /\ Len(path) = 1 THEN "getBySymbol"
    ELSE IF method = "POST" /\ Len(path) = 0 THEN "create"
    ELSE IF method = "PUT" /\ Len(path) = 1 THEN "update"
    ELSE IF method = "DELETE" /\ Len(path) = 1 THEN "delete"
    ELSE IF method = "POST" /\ Len(path) = 1 /\ IsSeg(path[1], Seg_search) THEN "search"
    ELSE IF method = "GET" /\ Len(path) = 2 /\ IsSeg(path[1], Seg_sector) THEN "sector"
    ELSE "none"

(***************************************************************************)
(* The route handlers.  Each gives the set of results a request can have   *)
(* on a collection: the response, the datastore operations issued, the     *)
(* error thrown in the handler ("unavailable": a datastore call failed;    *)
(* "validation"; "duplicateKey"; or "none"), the arguments given to        *)
(* .limit(), and the collection afterwards.                                *)
(***************************************************************************)
Result(resp, ops, err, limits, coll) ==
    [resp |-> resp, ops |-> ops, err |-> err, limits |-> limits, coll |-> coll]

\* An optional parameter: <<value>>, or <<>> when it is absent.
Param(obj, k) == IF k \in DOMAIN obj THEN <<obj[k]>> ELSE <<>>

\* GET /api/stocks
OnListAll(coll, req) ==
    { Result(Json(200, ListEnvelope(coll)), 1, "none", <<>>, coll),
      Result(ServerError, 1, "unavailable", <<>>, coll) }

\* GET /api/stocks/limit/:limit.  The handler has no try/catch: when find()
\* rejects, the rejection leaves the handler, and the request gets either no
\* response at all or the framework's error page, by the framework version.
OnListWithLimit(coll, req) ==
    LET limit == OrDefault(parseInt(<<req.path[2]>>), DEFAULT_LIMIT)
    IN  { Result(Json(200, ListEnvelope(Limit(coll, limit))), 1, "none", <<limit>>, coll),
          Result(NoResponse, 1, "unavailable", <<limit>>, coll),
          Result(DefaultErrorPage, 1, "unavailable", <<limit>>, coll) }

\* GET /api/stocks/top-magic-formula and GET /api/stocks/top-graham
OnTop(coll, req, path) ==
    LET limit == OrDefault(parseInt(Param(req.query, "limit")), DEFAULT_LIMIT)
    IN  { Result(Json(200, ListEnvelope(Limit(docs, limit))), 1, "none", <<limit>>, coll) :
            docs \in Sorted(coll, path) }
        \cup { Result(ServerError, 1, "unavailable", <<limit>>, coll) }

OnTopMagicFormula(coll, req) == OnTop(coll, req, MagicRankPath)

OnTopGraham(coll, req) == OnTop(coll, req, GrahamRankPath)

\* Variant: the path parameter is looked up as it is given.
SymbolKey_AsGiven(param) == param

\* req.params.symbol.toUpperCase()
SymbolKey(param) == toUpperCase(param)

\* GET /api/stocks/:symbol
OnGetBySymbol(coll, req) ==
    LET stock == FindOne(coll, SymbolKey(req.path[1]))
    IN  { IF stock = <<>> THEN Result(NotFound, 1, "none", <<>>, coll)
          ELSE Result(Json(200, [success |-> TRUE, data |-> stock[1]]), 1, "none", <<>>, coll),
          Result(ServerError, 1, "unavailable", <<>>, coll) }

\* Variant: the duplicate check upper-cases the symbol.
CreateKey_Upper(body) == toUpperCase(body.symbol)

\* { symbol: req.body.symbol } of the duplicate check.
CreateKey(body) == body.symbol

\* POST /api/stocks up to its first await: Stock.findOne.  A result with
\* next = TRUE goes on to save().
OnCreateFind(coll, req) ==
    LET stockExists == FindOne(coll, CreateKey(req.body))
    IN  { IF stockExists # <<>>
          THEN [next |-> FALSE,
                res  |-> Result(Json(400, ErrorEnvelope("Stock already exists")),
                                1, "none", <<>>, coll)]
          ELSE [next |-> TRUE, res |-> Result(NoResponse, 1, "none", <<>>, coll)],
          [next |-> FALSE, res |-> Result(ServerError, 1, "unavailable", <<>>, coll)] }

\* POST /api/stocks from new Stock(req.body) on: validation, then the insert.
OnCreateSave(coll, req) ==
    IF ~ValidateNew(req.body)
    THEN { Result(ServerError, 1, "validation", <<>>, coll) }
    ELSE LET newStock == NewStock(req.body)
         IN  { IF UniqueIndexAllows(coll, newStock.symbol, 0)
               THEN Result(Json(201, [success |-> TRUE, data |-> newStock]),
                           2, "none", <<>>, Append(coll, newStock))
               ELSE Result(ServerError, 2, "duplicateKey", <<>>, coll),
               Result(ServerError, 2, "unavailable", <<>>, coll) }

\* PUT /api/stocks/:symbol.  The update validators run before the call.
OnUpdate(coll, req) ==
    IF ~ValidateUpdate(req.body)
    THEN { Result(ServerError, 0, "validation", <<>>, coll) }
    ELSE LET sym == SymbolKey(req.path[1])
             i   == FirstMatch(coll, sym)
             updatedStock == SetPaths(coll[i], req.body)
         IN  { IF Matching(coll, sym) = {}
               THEN Result(NotFound, 1, "none", <<>>, coll)
               ELSE IF ~UniqueIndexAllows(coll, updatedStock.symbol, i)
               THEN Result(ServerError, 1, "duplicateKey", <<>>, coll)
               ELSE Result(Json(200, [success |-> TRUE, data |-> updatedStock]),
                           1, "none", <<>>, Replace(coll, i, updatedStock)),
               Result(ServerError, 1, "unavailable", <<>>, coll) }

\* Variant: the document is looked up first and deleted in a second call.
OnDelete_FindThenDelete(coll, req) ==
    LET sym == SymbolKey(req.path[1])
    IN  { IF Matching(coll, sym) = {}
          THEN Result(NotFound, 1, "none", <<>>, coll)
          ELSE Result(Json(200, [success |-> TRUE, data |-> EmptyObj]),
                      2, "none", <<>>, Remove(coll, FirstMatch(coll, sym))),
          Result(ServerError, 1, "unavailable", <<>>, coll) }

\* Variant: the delete uses the path parameter as it is given.
OnDelete_AsGiven(coll, req) ==
    LET sym == req.path[1]
    IN  { IF Matching(coll, sym) = {}
          THEN Result(NotFound, 1, "none", <<>>, coll)
          ELSE Result(Json(200, [success |-> TRUE, data |-> EmptyObj]),
                      1, "none", <<>>, Remove(coll, FirstMatch(coll, sym))),
          Result(ServerError, 1, "unavailable", <<>>, coll) }

\* DELETE /api/stocks/:symbol
OnDelete(coll, req) ==
    LET sym == SymbolKey(req.path[1])
    IN  { IF Matching(coll, sym) = {}
          THEN Result(NotFound, 1, "none", <<>>, coll)
          ELSE Result(Json(200, [success |-> TRUE, data |-> EmptyObj]),
                      1, "none", <<>>, Remove(coll, FirstMatch(coll, sym))),
          Result(ServerError, 1, "unavailable", <<>>, coll) }

\* POST /api/stocks/search.  !query holds for a missing and for an empty one.
OnSearch(coll, req) ==
    LET query == Param(req.body, "query")
    IN  IF query = <<>> \/ query[1] = <<>>
        THEN { Result(Json(400, ErrorEnvelope("Search query is required")),
                      0, "none", <<>>, coll) }
        ELSE { Result(Json(200, ListEnvelope(Limit(FindByQuery(coll, query[1]),
                                                   SEARCH_LIMIT))),
                      1, "none", <<SEARCH_LIMIT>>, coll),
               Result(ServerError, 1, "unavailable", <<SEARCH_LIMIT>>, coll) }

\* GET /api/stocks/sector/:sectorName
OnSector(coll, req) ==
    { Result(Json(200, ListEnvelope(FindBySector(coll, req.path[2]))),
             1, "none", <<>>, coll),
      Result(ServerError, 1, "unavailable", <<>>, coll) }

(***************************************************************************)
(* The requests the model sends.                                           *)
(***************************************************************************)
Str_AB == <<"A","B">>
Str_ab == <<"a","b">>
Str_TOP_GRAHAM == <<"T","O","P","-","G","R","A","H","A","M">>
Str_Acme == <<"A","c","m","e">>
Str_Bolt == <<"B","o","l","t">>
Str_Zed == <<"Z","e","d">>
Str_Tech == <<"T","e","c","h">>
Str_tech == <<"t","e","c","h">>

Request(method, path, query, body) ==
    [method |-> method, path |-> path, query |-> query, body |-> body]

\* Bodies of POST /api/stocks.  Every one carries a symbol; the last lacks
\* the required name.
CreateBodies ==
    { [symbol |-> Str_AB, name |-> Str_Acme, sector |-> Str_Tech, price |-> 7,
       graham_props |-> [graham_rank |-> 1],
       magic_formula_props |-> [magic_formula_rank |-> 2]],
      [symbol |-> Str_ab, name |-> Str_Bolt],
      [symbol |-> Str_TOP_GRAHAM, name |-> Str_Bolt,
       graham_props |-> [graham_rank |-> 2],
       magic_formula_props |-> [magic_formula_rank |-> 1]],
      [symbol |-> Str_AB] }

\* Bodies of PUT /api/stocks/:symbol: top-level paths only.
UpdateBodies ==
    { [name |-> Str_Zed], [symbol |-> Str_AB], [name |-> <<>>] }

\* :symbol of GET and DELETE, and of PUT.
SymbolParams == {Str_AB, Str_ab, Seg_top_graham}
UpdateParams == {Str_ab, Seg_top_graham}

\* :limit of the limit route, and ?limit= of the ranking routes.
LimitParams == { <<"1">>, <<"0">>, <<"x">>, <<"1","x">> }
LimitQueries == { EmptyObj, [limit |-> <<"1">>], [limit |-> <<"0">>],
                  [limit |-> <<"-","1">>] }

SearchBodies ==
    { EmptyObj, [query |-> <<>>], [query |-> <<"c">>], [query |-> <<".">>] }

SectorParams == { Str_tech }

Requests ==
    { Request("GET", <<>>, EmptyObj, EmptyObj) }
    \cup { Request("GET", <<Seg_limit, l>>, EmptyObj, EmptyObj) : l \in LimitParams }
    \cup { Request("GET", <<top>>, q, EmptyObj) :
             top \in {Seg_top_magic_formula, Seg_top_graham},
             q \in LimitQueries }
    \cup { Request(m, <<p>>, EmptyObj, EmptyObj) :
             m \in {"GET", "DELETE"}, p \in SymbolParams }
    \cup { Request("GET", <<Str_TOP_GRAHAM>>, EmptyObj, EmptyObj) }
    \cup { Request("POST", <<>>, EmptyObj, b) : b \in CreateBodies }
    \cup { Request("PUT", <<p>>, EmptyObj, b) : p \in UpdateParams, b \in UpdateBodies }
    \cup { Request("POST", <<Seg_search>>, EmptyObj, b) : b \in SearchBodies }
    \cup { Request("GET", <<Seg_sector, s>>, EmptyObj, EmptyObj) : s \in SectorParams }

\* The requests of the concurrent specification.
ConcurrentRequests ==
    { Request("POST", <<>>, EmptyObj, b) :
        b \in {c \in CreateBodies : ValidateNew(c) /\ c.symbol \in {Str_AB, Str_ab}} }
    \cup { Request("PUT", <<Str_ab>>, EmptyObj, [symbol |-> Str_ab]),
           Request("DELETE", <<Str_ab>>, EmptyObj, EmptyObj),
           Request("GET", <<Str_ab>>, EmptyObj, EmptyObj),
           Request("GET", <<>>, EmptyObj, EmptyObj),
           Request("GET", <<Seg_limit, <<"1">>>>, EmptyObj, EmptyObj),
           Request("GET", <<Seg_top_graham>>, EmptyObj, EmptyObj),
           Request("GET", <<Seg_top_magic_formula>>, EmptyObj, EmptyObj),
           Request("PUT", <<Str_ab>>, EmptyObj, [name |-> <<>>]),
           Request("POST", <<Seg_search>>, EmptyObj, EmptyObj),
           Request("POST", <<Seg_search>>, EmptyObj, [query |-> <<"c">>]),
           Request("GET", <<Seg_sector, Str_tech>>, EmptyObj, EmptyObj) }

(***************************************************************************)
(* State.                                                                  *)
(*   db    the collection                                                  *)
(*   pend  per client, <<>> or <<the create request awaiting save()>>      *)
(*   last  the exchange (request and response) completed last              *)
(*   prev  the exchange completed before it, kept when it is a create or   *)
(*         a delete                                                        *)
(* An exchange records, beside the handler's result: n0, the number of     *)
(* documents when the request arrived; used0, for a create, whether its    *)
(* symbol was in the collection then; raced, whether another request's     *)
(* datastore operation came between two of its own (the findOne and the    *)
(* insert of a create).                                                    *)
(***************************************************************************)
Clients == 1..NumClients

NoRequest == Request("", <<>>, EmptyObj, EmptyObj)

NoExchange ==
    [h |-> "none", req |-> NoRequest, resp |-> NoResponse, ops |-> 0,
     err |-> "none", limits |-> <<>>, n0 |-> 0, used0 |-> FALSE, raced |-> FALSE]

Exchange(h, req, res, n0, used0, raced) ==
    [h |-> h, req |-> req, resp |-> res.resp, ops |-> res.ops,
     err |-> res.err, limits |-> res.limits, n0 |-> n0, used0 |-> used0,
     raced |-> raced]

Init ==
    /\ db = <<>>
    /\ pend = [c \in Clients |-> <<>>]
    /\ last = NoExchange
    /\ prev = NoExchange

Idle(c) == pend[c] = <<>>

Pending == {c \in Clients : pend[c] # <<>>}

\* Client c's datastore operation falls between the two of every create
\* that is awaiting its save().
OthersRaced(c) ==
    [d \in Clients |->
        IF d # c /\ pend[d] # <<>> THEN <<[pend[d][1] EXCEPT !.raced = TRUE]>>
        ELSE pend[d]]

\* The exchange ex completes: the response is sent.
Complete(c, ex, coll) ==
    /\ db' = coll
    /\ last' = ex
    /\ prev' = IF last.h \in {"create", "delete"} THEN last ELSE NoExchange
    /\ pend' = [OthersRaced(c) EXCEPT ![c] = <<>>]

\* A handler that awaits the datastore once, from arrival to response.
Serve(c, h, req, results) ==
    \E res \in results :
        Complete(c, Exchange(h, req, res, Len(db), FALSE, FALSE), res.coll)

ListAll(c, req) ==
    /\ Idle(c)
    /\ Serve(c, "listAll", req, OnListAll(db, req))

ListWithLimit(c, req) ==
    /\ Idle(c)
    /\ Serve(c, "limit", req, OnListWithLimit(db, req))

TopMagicFormula(c, req) ==
    /\ Idle(c)
    /\ Serve(c, "topMagicFormula", req, OnTopMagicFormula(db, req))

TopGraham(c, req) ==
    /\ Idle(c)
    /\ Serve(c, "topGraham", req, OnTopGraham(db, req))

GetBySymbol(c, req) ==
    /\ Idle(c)
    /\ Serve(c, "getBySymbol", req, OnGetBySymbol(db, req))

Update(c, req) ==
    /\ Idle(c)
    /\ Serve(c, "update", req, OnUpdate(db, req))

Delete(c, req) ==
    /\ Idle(c)
    /\ Serve(c, "delete", req, OnDelete(db, req))

Search(c, req) ==
    /\ Idle(c)
    /\ Serve(c, "search", req, OnSearch(db, req))

Sector(c, req) ==
    /\ Idle(c)
    /\ Serve(c, "sector", req, OnSector(db, req))

\* POST /api/stocks arrives and awaits findOne.  A create that would add a
\* document is accepted while the collection has room for it.
CreateFind(c, req) ==
    /\ Idle(c)
    /\ \/ Len(db) + Cardinality(Pending) < MaxDocs
       \/ Matching(db, req.body.symbol) # {}
    /\ \E r \in OnCreateFind(db, req) :
          LET used0 == \E i \in 1..Len(db) : db[i].symbol = req.body.symbol
          IN  IF r.next
              THEN /\ pend' = [OthersRaced(c) EXCEPT
                                 ![c] = <<[req |-> req, n0 |-> Len(db),
                                           used0 |-> used0, raced |-> FALSE]>>]
                   /\ UNCHANGED <<db, last, prev>>
              ELSE Complete(c, Exchange("create", req, r.res, Len(db), used0, FALSE),
                            r.res.coll)

\* The create of client c resumes after findOne: save(), then the response.
CreateSave(c) ==
    /\ pend[c] # <<>>
    /\ LET p == pend[c][1]
       IN  \E res \in OnCreateSave(db, p.req) :
              Complete(c, Exchange("create", p.req, res, p.n0, p.used0,
                                   p.raced /\ res.ops = 2),
                       res.coll)

\* The requests among reqs that the router hands to handler h.
RoutedTo(h, reqs) == {req \in reqs : Route(req.method, req.path) = h}

Handlers ==
    {"listAll", "limit", "topMagicFormula", "topGraham", "getBySymbol", "create",
     "update", "delete", "search", "sector"}

Dispatch == [h \in Handlers |-> RoutedTo(h, Requests)]

DispatchConc == [h \in Handlers |-> RoutedTo(h, ConcurrentRequests)]

NextOf(clients, routed) ==
    \E c \in clients :
        \/ \E req \in routed["listAll"] : ListAll(c, req)
        \/ \E req \in routed["limit"] : ListWithLimit(c, req)
        \/ \E req \in routed["topMagicFormula"] : TopMagicFormula(c, req)
        \/ \E req \in routed["topGraham"] : TopGraham(c, req)
        \/ \E req \in routed["getBySymbol"] : GetBySymbol(c, req)
        \/ \E req \in routed["create"] : CreateFind(c, req)
        \/ \E req \in routed["update"] : Update(c, req)
        \/ \E req \in routed["delete"] : Delete(c, req)
        \/ \E req \in routed["search"] : Search(c, req)
        \/ \E req \in routed["sector"] : Sector(c, req)
        \/ CreateSave(c)

\* One client: each request is sent after the response to the one before.
Next == NextOf({1}, Dispatch)

Spec == Init /\ [][Next]_vars

\* NumClients clients, whose requests are in flight together.
NextConc == NextOf(Clients, DispatchConc)

SpecConc == Init /\ [][NextConc]_vars

(***************************************************************************)
(* Properties                                                              *)
(***************************************************************************)
\* The path parameter p of a GET request is taken by one of the two literal
\* ranking routes, which are registered before /:symbol.
TakenByRankingRoute(p) == IsSeg(p, Seg_top_magic_formula) \/ IsSeg(p, Seg_top_graham)

Stored(sym) == {i \in 1..Len(db) : db[i].symbol = sym}

\* Every value the body submits is the value of the same path of doc.
SubmittedValuesIn(body, doc) ==
    \A f \in DOMAIN body :
        IF f \in NestedPaths THEN \A g \in DOMAIN body[f] : doc[f][g] = body[f][g]
        ELSE doc[f] = body[f]

\* text contains q as a substring, letter case apart.
ContainsIgnoringCase(text, q) ==
    \E i \in 0..(Len(text) - Len(q)) :
        \A j \in 1..Len(q) : UpperChar(q[j]) = UpperChar(text[i + j])

\* C1: a create of a valid payload (symbol and name present) whose symbol was
\* not in the collection, followed by GET /api/stocks/<that symbol>, gets
\* 200 with a record whose values are the submitted ones (unless a datastore
\* call fails).
C1_CreateThenGetRoundTrip ==
    ( /\ prev.h = "create"
      /\ ValidateNew(prev.req.body)
      /\ ~prev.used0
      /\ prev.err # "unavailable"
      /\ last.req.method = "GET"
      /\ last.req.path = <<prev.req.body.symbol>>
      /\ last.err # "unavailable" )
    => /\ last.h = "getBySymbol"
       /\ last.resp.status = 200
       /\ SubmittedValuesIn(prev.req.body, last.resp.body.data)

\* C2: two creates with the same symbol, one after the other, the first with
\* a valid payload and a symbol not yet in the collection: the first gets
\* 201, the second 400 "Stock already exists", and the collection has
\* exactly one document more than before the first (unless a datastore call
\* fails).
C2_SecondCreateRejected ==
    ( /\ prev.h = "create"
      /\ last.h = "create"
      /\ last.req.body.symbol = prev.req.body.symbol
      /\ ValidateNew(prev.req.body)
      /\ ~prev.used0
      /\ ~prev.raced /\ ~last.raced
      /\ prev.err # "unavailable" /\ last.err # "unavailable" )
    => /\ prev.resp.status = 201
       /\ last.resp = Json(400, ErrorEnvelope("Stock already exists"))
       /\ Len(db) = prev.n0 + 1

C2_Witness ==
    /\ prev.h = "create" /\ prev.resp.status = 201 /\ ~prev.used0
    /\ last.h = "create" /\ last.resp.status = 400
    /\ last.req.body.symbol = prev.req.body.symbol
    /\ Len(db) = prev.n0 + 1

\* What C3 says of the answer to GET /api/stocks/<p>: the record whose symbol
\* is uppercase(p) with 200, or 404 "Stock not found" when there is none.
GetAnswersByUpperCase(ex) ==
    LET S == toUpperCase(ex.req.path[1])
    IN  /\ ex.h = "getBySymbol"
        /\ IF Stored(S) # {}
           THEN /\ ex.resp.status = 200
                /\ ex.resp.body.success
                /\ \E i \in Stored(S) : ex.resp.body.data = db[i]
           ELSE ex.resp = NotFound

\* C3, as stated: for every path parameter p, GET /api/stocks/<p> answers by
\* uppercase(p) (unless the datastore call fails).
C3_Original ==
    ( /\ last.req.method = "GET"
      /\ Len(last.req.path) = 1
      /\ last.err # "unavailable" )
    => GetAnswersByUpperCase(last)

\* C3, amended: the same for every p other than top-magic-formula and
\* top-graham in any letter case; those two are answered by the ranking
\* routes.
C3_GetIgnoresCase ==
    ( /\ last.req.method = "GET"
      /\ Len(last.req.path) = 1
      /\ ~TakenByRankingRoute(last.req.path[1])
      /\ last.err # "unavailable" )
    => GetAnswersByUpperCase(last)

C3_Witness ==
    /\ last.h = "getBySymbol"
    /\ last.req.path[1] # toUpperCase(last.req.path[1])
    /\ last.resp.status = 200
    /\ last.resp.body.data.symbol = toUpperCase(last.req.path[1])

\* A delete answered 200 or 404, followed by a GET of the same path.
DeleteThenGet ==
    /\ prev.h = "delete"
    /\ prev.err # "unavailable"
    /\ last.req.method = "GET"
    /\ last.req.path = prev.req.path
    /\ last.err # "unavailable"

\* A step in which a delete matched a document (its 200 is the exchange
\* completed by the step): exactly that document, the one whose symbol is
\* uppercase(p), leaves the collection.
DeleteRemovesOnlyTheMatch ==
    (last' # last /\ last'.h = "delete" /\ last'.resp.status = 200)
    => \E i \in Stored(toUpperCase(last'.req.path[1])) :
          /\ Len(db') = Len(db) - 1
          /\ \A j \in 1..Len(db') : db'[j] = IF j < i THEN db[j] ELSE db[j + 1]

\* C4, as stated: for every symbol, a delete followed by a get-by-symbol of
\* the same symbol gets 404 "Stock not found", and a delete that matched
\* removes that record and no other.
C4_Original ==
    /\ [](DeleteThenGet => last.resp = NotFound)
    /\ [][DeleteRemovesOnlyTheMatch]_vars

\* C4, amended: the same for every symbol other than top-magic-formula and
\* top-graham in any letter case (a GET of those is answered by the ranking
\* routes with 200).
C4_DeleteThenGet ==
    /\ []((DeleteThenGet /\ ~TakenByRankingRoute(last.req.path[1]))
             => last.resp = NotFound)
    /\ [][DeleteRemovesOnlyTheMatch]_vars

C4_Witness ==
    /\ DeleteThenGet
    /\ prev.resp.status = 200
    /\ last.h = "getBySymbol"
    /\ last.resp = NotFound
    /\ db # <<>>

Ascending(docs, path) ==
    \A i \in 1..(Len(docs) - 1) : ValueAt(docs[i], path) <= ValueAt(docs[i + 1], path)

\* The limit a request asks for, as parseInt reads it.
AskedLimit(ex) ==
    parseInt(IF ex.h = "limit" THEN <<ex.req.path[2]>> ELSE Param(ex.req.query, "limit"))

\* The limit C8 expects to be in force: the one asked for, or 500 when it
\* is absent or not a number.
ExpectedLimit(ex) ==
    IF AskedLimit(ex).nan THEN DEFAULT_LIMIT ELSE AskedLimit(ex).val

\* The bound C5 puts on the length: the limit asked for, or 500 when it is
\* absent or invalid (not a number, or negative: no length is below zero).
LengthBound(ex) ==
    IF AskedLimit(ex).nan \/ AskedLimit(ex).val < 0 THEN DEFAULT_LIMIT
    ELSE AskedLimit(ex).val

\* C5: the data of top-magic-formula is ascending by magic_formula_rank, that
\* of top-graham by graham_rank, count is the length of the data, and the
\* length is at most the limit asked for, or at most 500 when the limit is
\* absent or invalid.
C5_TopSortedWithinLimit ==
    (last.h \in {"topMagicFormula", "topGraham"} /\ last.resp.status = 200)
    => /\ (last.h = "topMagicFormula" => Ascending(last.resp.body.data, MagicRankPath))
       /\ (last.h = "topGraham" => Ascending(last.resp.body.data, GrahamRankPath))
       /\ last.resp.body.count = Len(last.resp.body.data)
       /\ Len(last.resp.body.data) <= LengthBound(last)

\* C6: on every endpoint, a request whose datastore call fails is answered
\* with status 500 and the envelope {success: false, error}; none is left
\* without a response.
C6_FailureGets500Envelope ==
    (last.h # "none" /\ last.err = "unavailable")
    => /\ last.resp.status = 500
       /\ last.resp.json
       /\ DOMAIN last.resp.body = {"success", "error"}
       /\ ~last.resp.body.success

\* C7: search answers 400 without a datastore call when the query is missing
\* or empty; otherwise (unless the datastore call fails) 200 with at most 20
\* records, each containing the query, letter case apart, in its symbol or
\* its name, and count is their number.
C7_SearchContainsQuery ==
    (last.h = "search")
    => LET q == Param(last.req.body, "query")
       IN  IF q = <<>> \/ q[1] = <<>>
           THEN last.resp.status = 400 /\ last.ops = 0
           ELSE (last.err # "unavailable")
                => /\ last.resp.status = 200
                   /\ Len(last.resp.body.data) <= SEARCH_LIMIT
                   /\ last.resp.body.count = Len(last.resp.body.data)
                   /\ \A i \in 1..Len(last.resp.body.data) :
                         \/ ContainsIgnoringCase(last.resp.body.data[i].symbol, q[1])
                         \/ ContainsIgnoringCase(last.resp.body.data[i].name, q[1])

\* C8: on the limit route and the two ranking routes, the limit given to the
\* datastore is 500 when the parameter is absent or not a number, and the
\* parsed integer otherwise.
C8_LimitAsParsedOrDefault ==
    (last.h \in {"limit", "topMagicFormula", "topGraham"})
    => last.limits = <<ExpectedLimit(last)>>

\* C9, as stated: every request performs exactly one datastore operation, on
\* every endpoint, and none has a second operation that another request's
\* operation comes before.
C9_Original ==
    (last.h # "none") => (last.ops = 1 /\ ~last.raced)

\* C9, amended: a request to an endpoint other than create performs one
\* datastore operation, or none when search refuses a missing or empty query
\* or update refuses a body that fails validation; create performs findOne
\* and, when that succeeded and found no duplicate and the payload is valid,
\* a second operation, the insert; only between those two can another
\* request's operation come.
C9_OneCallExceptCreate ==
    (last.h # "none")
    => IF last.h = "create"
       THEN /\ last.ops \in {1, 2}
            /\ (last.resp.status = 201 \/ last.err = "duplicateKey") => last.ops = 2
            /\ (last.resp.status = 400 \/ last.err = "validation") => last.ops = 1
            /\ last.ops = 2 => (ValidateNew(last.req.body) /\ last.resp.status # 400)
            /\ last.raced => last.ops = 2
       ELSE /\ ~last.raced
            /\ last.ops =
                  IF \/ (last.h = "search" /\ last.resp.status = 400)
                     \/ (last.h = "update" /\ ~ValidateUpdate(last.req.body))
                  THEN 0 ELSE 1

C9_Witness ==
    /\ last.h = "create"
    /\ last.ops = 2
    /\ last.raced

UniqueSymbols ==
    \A i, j \in 1..Len(db) : db[i].symbol = db[j].symbol => i = j

\* C10: in every reachable state under concurrent creates, updates and
\* deletes, no two documents have the same symbol; and of two creates with
\* the same symbol whose responses follow one another, the first being 201,
\* the second is not 201 and one document has that symbol.
C10_UniqueSymbols ==
    /\ UniqueSymbols
    /\ ( /\ prev.h = "create" /\ prev.resp.status = 201
         /\ last.h = "create"
         /\ last.req.body.symbol = prev.req.body.symbol )
       => /\ last.resp.status # 201
          /\ Cardinality(Stored(last.req.body.symbol)) = 1

\* Two creates of a symbol that was unused when each arrived, the second
\* inserting after the first did.
C10_Witness ==
    /\ prev.h = "create" /\ prev.resp.status = 201 /\ ~prev.used0
    /\ last.h = "create" /\ ~last.used0 /\ last.raced
    /\ last.req.body.symbol = prev.req.body.symbol
    /\ last.err = "duplicateKey"
    /\ Cardinality(Stored(last.req.body.symbol)) = 1

=============================================================================
